---- MODULE Spec2Model ----
(***************************************************************************)
(* Product catalog service: the request handlers of service/routes.py over *)
(* the Product entity (service/models.py) and its relational store.        *)
(*                                                                         *)
(* Text that the code converts (category.upper(), available.lower()) is a  *)
(* sequence of one-character strings, so that the conversion is computed.  *)
(* Text that the code only compares or copies (names, descriptions) is a   *)
(* plain string.                                                           *)
(***************************************************************************)
EXTENDS Integers, Sequences, FiniteSets, TLC

VARIABLES
    store,      \* the product table: id -> row, defined on the persisted ids
    next_id,    \* the next value of the table's id sequence
    request,    \* the request the last handler served
    response,   \* the response that handler returned
    store_raised \* the store failed the write of the last handler

vars == <<store, next_id, request, response, store_raised>>

\* The largest id the id sequence hands out in the model.
MaxId == 2

(***************************************************************************)
(* Text                                                                    *)
(***************************************************************************)

\* str.upper() on one character (ASCII letters used by the model's inputs).
upper_char(c) ==
    CASE c = "a" -> "A" [] c = "b" -> "B" [] c = "c" -> "C" [] c = "d" -> "D"
      [] c = "e" -> "E" [] c = "f" -> "F" [] c = "g" -> "G" [] c = "h" -> "H"
      [] c = "l" -> "L" [] c = "n" -> "N" [] c = "o" -> "O" [] c = "r" -> "R"
      [] c = "s" -> "S" [] c = "t" -> "T" [] c = "u" -> "U" [] c = "y" -> "Y"
      [] OTHER -> c

\* str.lower() on one character.
lower_char(c) ==
    CASE c = "A" -> "a" [] c = "B" -> "b" [] c = "C" -> "c" [] c = "D" -> "d"
      [] c = "E" -> "e" [] c = "F" -> "f" [] c = "G" -> "g" [] c = "H" -> "h"
      [] c = "L" -> "l" [] c = "N" -> "n" [] c = "O" -> "o" [] c = "R" -> "r"
      [] c = "S" -> "s" [] c = "T" -> "t" [] c = "U" -> "u" [] c = "Y" -> "y"
      [] OTHER -> c

upper(s) == [i \in 1..Len(s) |-> upper_char(s[i])]

lower(s) == [i \in 1..Len(s) |-> lower_char(s[i])]

(***************************************************************************)
(* Category: the enumeration of service/models.py                          *)
(***************************************************************************)

\* The members, by value.
Category == {0, 1, 2}

\* Category(m).name
Category_name(m) ==
    CASE m = 0 -> <<"U", "N", "K", "N", "O", "W", "N">>
      [] m = 1 -> <<"C", "L", "O", "T", "H", "S">>
      [] m = 2 -> <<"F", "O", "O", "D">>

\* hasattr(Category, attr): attr is the exact name of a member.
Category_has(attr) == \E m \in Category : Category_name(m) = attr

\* getattr(Category, attr) where Category_has(attr).
Category_getattr(attr) == CHOOSE m \in Category : Category_name(m) = attr

(***************************************************************************)
(* Decimal prices: unscaled digits and scale, as decimal.Decimal keeps them *)
(***************************************************************************)

\* The price literals of the model's payloads.
PriceText == {"12.50", "7"}

\* Decimal(text)
Decimal(text) ==
    CASE text = "12.50" -> [digits |-> 1250, scale |-> 2]
      [] text = "7"     -> [digits |-> 7, scale |-> 0]

\* str(decimal)
Decimal_str(d) == CHOOSE text \in PriceText : Decimal(text) = d

(***************************************************************************)
(* Product entity (service/models.py): validation, (de)serialization and   *)
(* the persistence operations on the table                                 *)
(***************************************************************************)

\* The id of a Product that was never persisted (id = None).
NoId == 0

\* Product(): a new entity, no attribute set yet.
Product ==
    [id |-> NoId, name |-> "", description |-> "",
     price |-> Decimal("7"), available |-> FALSE, category |-> 0]

\* isinstance(token, bool) on a JSON value.
is_bool(token) == token \in {"true", "false"}

\* Product.deserialize(data): the entity with the attributes of the mapping,
\* or a validation error (DataValidationError).  data is the parsed body.
\* The attributes are assigned to the entity one after the other, so that a
\* failure leaves the entity with the ones assigned before it.
deserialize(product, body) ==
    IF body.json # "object"
    THEN [ok |-> FALSE, product |-> product,
          error |-> "Invalid product: body of request contained bad or no data"]
    ELSE LET data == body.data
             named == IF "name" \in DOMAIN data
                      THEN [product EXCEPT
                              !.name = data.name,
                              !.description = IF "description" \in DOMAIN data
                                              THEN data.description ELSE ""]
                      ELSE product
             priced == IF "price" \in DOMAIN data
                       THEN [named EXCEPT !.price = Decimal(data.price)]
                       ELSE named
             flagged == IF "available" \in DOMAIN data /\ is_bool(data.available)
                        THEN [priced EXCEPT
                                !.available = (data.available = "true")]
                        ELSE priced
         IN
         IF "name" \notin DOMAIN data
         THEN [ok |-> FALSE, product |-> product,
               error |-> "Invalid product: missing name"]
         ELSE IF "price" \notin DOMAIN data
         THEN [ok |-> FALSE, product |-> named,
               error |-> "Invalid product: missing price"]
         ELSE IF "available" \notin DOMAIN data
         THEN [ok |-> FALSE, product |-> priced,
               error |-> "Invalid product: missing available"]
         ELSE IF ~is_bool(data.available)
         THEN [ok |-> FALSE, product |-> priced,
               error |-> "Invalid type for boolean [available]"]
         ELSE IF "category" \notin DOMAIN data
         THEN [ok |-> FALSE, product |-> flagged,
               error |-> "Invalid product: missing category"]
         ELSE IF ~Category_has(data.category)
         THEN [ok |-> FALSE, product |-> flagged,
               error |-> "Invalid attribute: category"]
         ELSE [ok |-> TRUE,
               product |->
                   [flagged EXCEPT
                      !.category = Category_getattr(data.category)],
               error |-> ""]

\* Product.update() raises DataValidationError: `if not self.id`.
update_raises(product) == product.id = NoId

\* Product.serialize(): the JSON mapping of all attributes.
serialize(product) ==
    [id |-> product.id,
     name |-> product.name,
     description |-> product.description,
     price |-> Decimal_str(product.price),
     available |-> IF product.available THEN "true" ELSE "false",
     category |-> Category_name(product.category)]

\* Product.create(): the table after the insert; the store assigns the id.
create(table, id, product) ==
    [i \in DOMAIN table \cup {id} |->
        IF i = id THEN [product EXCEPT !.id = id] ELSE table[i]]

\* Product.update(): the table after the row product.id took the attributes.
update(table, product) ==
    [i \in DOMAIN table |-> IF i = product.id THEN product ELSE table[i]]

\* Product.delete(): the table after the row product.id was removed.
delete(table, product) ==
    [i \in DOMAIN table \ {product.id} |-> table[i]]

\* Product.find(id): the row is looked up by primary key; found(table, id)
\* is false where find returns None.
found(table, product_id) == product_id \in DOMAIN table

find(table, product_id) == table[product_id]

\* The ids of a set of rows as the sequence of rows in id order.
RECURSIVE rows_in_order(_, _)
rows_in_order(table, ids) ==
    IF ids = {} THEN <<>>
    ELSE LET first == CHOOSE i \in ids : \A j \in ids : i <= j
         IN <<table[first]>> \o rows_in_order(table, ids \ {first})

\* Product.all()
all(table) == rows_in_order(table, DOMAIN table)

\* Product.find_by_name(name): exact match.
find_by_name(table, name) ==
    rows_in_order(table, {i \in DOMAIN table : table[i].name = name})

\* Product.find_by_category(category): match on the enumeration member.
find_by_category(table, category) ==
    rows_in_order(table, {i \in DOMAIN table : table[i].category = category})

\* Product.find_by_availability(available): match on the boolean.
find_by_availability(table, available) ==
    rows_in_order(table, {i \in DOMAIN table : table[i].available = available})

(***************************************************************************)
(* Requests and responses                                                  *)
(***************************************************************************)

\* A mapping with no key: no header, no query parameter.
Empty == [k \in {} |-> ""]

\* request.headers as far as the handlers read it.
Headers ==
    {Empty,
     [k \in {"Content-Type"} |-> "application/json"],
     [k \in {"Content-Type"} |-> "plain/text"]}

\* Spellings of the category and available query parameters.
t_FOOD   == <<"F", "O", "O", "D">>
t_food   == <<"f", "o", "o", "d">>
t_Food   == <<"F", "o", "o", "D">>
t_CLOTHS == <<"C", "L", "O", "T", "H", "S">>
t_clothS == <<"c", "l", "o", "t", "h", "S">>
t_bogus  == <<"b", "o", "g", "u", "s">>
t_true   == <<"t", "r", "u", "e">>
t_TRUE   == <<"T", "R", "U", "E">>
t_yes    == <<"y", "e", "s">>
t_Yes    == <<"Y", "e", "s">>
t_1      == <<"1">>
t_no     == <<"n", "o">>
t_false  == <<"f", "a", "l", "s", "e">>
t_tru    == <<"t", "r", "u">>
t_empty  == <<>>

NameArgs == {"", "Hat", "hat", "Cap"}

CategoryArgs == {t_empty, t_FOOD, t_food, t_Food, t_CLOTHS, t_clothS, t_bogus}

AvailableArgs ==
    {t_empty, t_true, t_TRUE, t_yes, t_Yes, t_1, t_no, t_false, t_tru}

\* request.args: every query with at most one parameter, and the queries
\* that mix parameters.
Args ==
    {Empty}
    \cup {[k \in {"name"} |-> n] : n \in NameArgs}
    \cup {[k \in {"category"} |-> c] : c \in CategoryArgs}
    \cup {[k \in {"available"} |-> a] : a \in AvailableArgs}
    \cup {[name |-> n, category |-> c] :
            n \in {"", "Hat"}, c \in {t_food, t_bogus}}
    \cup {[name |-> n, available |-> a] :
            n \in {"", "Hat"}, a \in {t_true, t_no}}
    \cup {[category |-> c, available |-> a] :
            c \in {t_empty, t_food, t_bogus}, a \in {t_true, t_no}}
    \cup {[name |-> n, category |-> c, available |-> a] :
            n \in {"", "Hat"}, c \in {t_empty, t_CLOTHS}, a \in {t_yes, t_empty}}

\* The valid product payloads.
ValidData ==
    {[name |-> "Hat", description |-> "A red hat", price |-> "12.50",
      available |-> "true", category |-> t_CLOTHS],
     [name |-> "hat", description |-> "", price |-> "7",
      available |-> "false", category |-> t_FOOD],
     [id |-> 2, name |-> "Hat", description |-> "unknown", price |-> "7",
      available |-> "false", category |-> t_FOOD]}

\* Payloads that are JSON objects and fail validation.
InvalidData ==
    {[description |-> "A red hat", price |-> "12.50",
      available |-> "true", category |-> t_CLOTHS],
     [name |-> "Hat", description |-> "A red hat", price |-> "12.50",
      available |-> "yes", category |-> t_CLOTHS],
     [name |-> "Hat", description |-> "A red hat", price |-> "12.50",
      available |-> "true", category |-> t_bogus],
     [name |-> "Hat", description |-> "A red hat", price |-> "12.50",
      available |-> "true"]}

\* The request body: a JSON object, JSON that is no object, or no JSON.
Bodies ==
    {[json |-> "object", data |-> d] : d \in ValidData \cup InvalidData}
    \cup {[json |-> "array"], [json |-> "malformed"]}

\* The ids a path names: 0 is never assigned, 1..MaxId are.
PathIds == 0..MaxId

\* A response with a JSON body.
jsonify(value, code, headers) ==
    [status |-> code, body |-> [type |-> "json", value |-> value],
     headers |-> headers]

\* abort(code, message): the error handler's JSON body with the message.
abort(code, message) ==
    [status |-> code, body |-> [type |-> "error", message |-> message],
     headers |-> Empty]

\* An exception no handler converts: the framework's server error.
unhandled(exception) ==
    [status |-> 500, body |-> [type |-> "error", message |-> <<exception>>],
     headers |-> Empty]

\* url_for("get_products", product_id=...)
url_for_get_products(product_id) == <<"/products", product_id>>

(***************************************************************************)
(* service/common/status.py                                                *)
(***************************************************************************)

HTTP_200_OK == 200
HTTP_201_CREATED == 201
HTTP_204_NO_CONTENT == 204
HTTP_400_BAD_REQUEST == 400
HTTP_404_NOT_FOUND == 404
HTTP_415_UNSUPPORTED_MEDIA_TYPE == 415
HTTP_500_INTERNAL_SERVER_ERROR == 500

(***************************************************************************)
(* service/routes.py: each handler as the function of the request and the  *)
(* store that gives the response and the new store                         *)
(***************************************************************************)

\* What a handler leaves behind.
Outcome(resp, table, id) == [response |-> resp, store |-> table, next_id |-> id]

\* GET /health
healthcheck_response ==
    jsonify([status |-> 200, message |-> "OK"], HTTP_200_OK, Empty)

\* check_content_type without the test for a missing header.
check_content_type_missing_passes(headers, content_type) ==
    IF "Content-Type" \in DOMAIN headers
       /\ headers["Content-Type"] # content_type
    THEN [aborted |-> TRUE,
          response |-> abort(HTTP_415_UNSUPPORTED_MEDIA_TYPE,
                             <<"Content-Type must be", content_type>>)]
    ELSE [aborted |-> FALSE, response |-> abort(0, <<>>)]

\* check_content_type(content_type): the abort it raises, if any.
check_content_type(headers, content_type) ==
    IF "Content-Type" \notin DOMAIN headers
    THEN [aborted |-> TRUE,
          response |-> abort(HTTP_415_UNSUPPORTED_MEDIA_TYPE,
                             <<"Content-Type must be", content_type>>)]
    ELSE IF headers["Content-Type"] = content_type
    THEN [aborted |-> FALSE, response |-> abort(0, <<>>)]
    ELSE [aborted |-> TRUE,
          response |-> abort(HTTP_415_UNSUPPORTED_MEDIA_TYPE,
                             <<"Content-Type must be", content_type>>)]

\* request.get_json(): a body that is no JSON is a bad request.
get_json_fails(body) == body.json = "malformed"

\* create_products that serializes the entity before the store gave it an id.
create_products_unsaved_message(table, id, headers, body) ==
    LET check == check_content_type(headers, "application/json") IN
    IF check.aborted THEN Outcome(check.response, table, id)
    ELSE IF get_json_fails(body)
    THEN Outcome(abort(HTTP_400_BAD_REQUEST, <<"Bad Request">>), table, id)
    ELSE LET parsed == deserialize(Product, body) IN
         IF ~parsed.ok
         THEN Outcome(abort(HTTP_400_BAD_REQUEST, <<parsed.error>>), table, id)
         ELSE LET saved == create(table, id, parsed.product)
                  message == serialize(parsed.product)
                  location_url == url_for_get_products(parsed.product.id)
              IN Outcome(jsonify(message, HTTP_201_CREATED,
                                 [k \in {"Location"} |-> location_url]),
                         saved, id + 1)

\* create_products that inserts the entity although its validation failed.
create_products_saves_invalid(table, id, headers, body) ==
    LET check == check_content_type(headers, "application/json") IN
    IF check.aborted THEN Outcome(check.response, table, id)
    ELSE IF get_json_fails(body)
    THEN Outcome(abort(HTTP_400_BAD_REQUEST, <<"Bad Request">>), table, id)
    ELSE LET parsed == deserialize(Product, body)
             saved == create(table, id, parsed.product)
         IN IF ~parsed.ok
            THEN Outcome(abort(HTTP_400_BAD_REQUEST, <<parsed.error>>),
                         saved, id + 1)
            ELSE Outcome(jsonify(serialize(saved[id]), HTTP_201_CREATED,
                                 [k \in {"Location"} |->
                                     url_for_get_products(saved[id].id)]),
                         saved, id + 1)

\* create_products that keeps the id of the payload in the new row.
create_products_client_id(table, id, headers, body) ==
    LET check == check_content_type(headers, "application/json") IN
    IF check.aborted THEN Outcome(check.response, table, id)
    ELSE IF get_json_fails(body)
    THEN Outcome(abort(HTTP_400_BAD_REQUEST, <<"Bad Request">>), table, id)
    ELSE LET parsed == deserialize(Product, body) IN
         IF ~parsed.ok
         THEN Outcome(abort(HTTP_400_BAD_REQUEST, <<parsed.error>>), table, id)
         ELSE LET row == IF "id" \in DOMAIN body.data
                         THEN [parsed.product EXCEPT !.id = body.data.id]
                         ELSE [parsed.product EXCEPT !.id = id]
                  saved == [i \in DOMAIN table \cup {id} |->
                               IF i = id THEN row ELSE table[i]]
              IN Outcome(jsonify(serialize(row), HTTP_201_CREATED,
                                 [k \in {"Location"} |->
                                     url_for_get_products(row.id)]),
                         saved, id + 1)

\* POST /products
create_products_outcome(table, id, headers, body) ==
    LET check == check_content_type(headers, "application/json") IN
    IF check.aborted THEN Outcome(check.response, table, id)
    ELSE IF get_json_fails(body)
    THEN Outcome(abort(HTTP_400_BAD_REQUEST, <<"Bad Request">>), table, id)
    ELSE LET parsed == deserialize(Product, body) IN
         IF ~parsed.ok
         THEN Outcome(abort(HTTP_400_BAD_REQUEST, <<parsed.error>>), table, id)
         ELSE LET saved == create(table, id, parsed.product)
                  message == serialize(saved[id])
                  location_url == url_for_get_products(saved[id].id)
              IN Outcome(jsonify(message, HTTP_201_CREATED,
                                 [k \in {"Location"} |-> location_url]),
                         saved, id + 1)

\* name_given that reads a parameter the client never sends.
name_never_given(args) == "Name" \in DOMAIN args /\ args.name # ""

\* The name parameter was received: `if name:`.
name_given(args) == "name" \in DOMAIN args /\ args.name # ""

\* The category parameter was received: `elif category:`.
category_given(args) == "category" \in DOMAIN args /\ args.category # <<>>

\* The available parameter was received: `elif available:`.
available_given(args) == "available" \in DOMAIN args /\ args.available # <<>>

\* available_value that takes every text but no and false as true.
available_value_unless_no(available) == lower(available) \notin {t_no, t_false}

\* available_value without the lower(): the text is compared as it came.
available_value_exact(available) == available \in {t_true, t_yes, t_1}

\* available.lower() in ["true", "yes", "1"]
available_value(available) == lower(available) \in {t_true, t_yes, t_1}

\* category_value without the upper(): the text is looked up as it came.
category_value_exact(category) ==
    IF Category_has(category)
    THEN [raised |-> FALSE, value |-> Category_getattr(category)]
    ELSE [raised |-> TRUE, value |-> 0]

\* getattr(Category, category.upper()): the member, or AttributeError raised.
category_value(category) ==
    LET attr == upper(category) IN
    IF Category_has(attr)
    THEN [raised |-> FALSE, value |-> Category_getattr(attr)]
    ELSE [raised |-> TRUE, value |-> 0]

\* The serialized rows: [product.serialize() for product in products].
RECURSIVE serialize_all(_)
serialize_all(products) ==
    IF products = <<>> THEN <<>>
    ELSE <<serialize(Head(products))>> \o serialize_all(Tail(products))

\* list_products with the category tested before the name.
list_products_category_first(table, args) ==
    IF category_given(args)
    THEN LET converted == category_value(args.category) IN
         IF converted.raised
         THEN unhandled("AttributeError")
         ELSE jsonify(serialize_all(find_by_category(table, converted.value)),
                      HTTP_200_OK, Empty)
    ELSE IF name_given(args)
    THEN jsonify(serialize_all(find_by_name(table, args.name)),
                 HTTP_200_OK, Empty)
    ELSE IF available_given(args)
    THEN jsonify(serialize_all(find_by_availability(table,
                     available_value(args.available))),
                 HTTP_200_OK, Empty)
    ELSE jsonify(serialize_all(all(table)), HTTP_200_OK, Empty)

\* GET /products
list_products_response(table, args) ==
    IF name_given(args)
    THEN jsonify(serialize_all(find_by_name(table, args.name)),
                 HTTP_200_OK, Empty)
    ELSE IF category_given(args)
    THEN LET converted == category_value(args.category) IN
         IF converted.raised
         THEN unhandled("AttributeError")
         ELSE jsonify(serialize_all(find_by_category(table, converted.value)),
                      HTTP_200_OK, Empty)
    ELSE IF available_given(args)
    THEN jsonify(serialize_all(find_by_availability(table,
                     available_value(args.available))),
                 HTTP_200_OK, Empty)
    ELSE jsonify(serialize_all(all(table)), HTTP_200_OK, Empty)

\* get_products without the test of the lookup: an absent id is answered 200.
get_products_absent_is_ok(table, product_id) ==
    IF ~found(table, product_id)
    THEN jsonify([id |-> product_id], HTTP_200_OK, Empty)
    ELSE jsonify(serialize(find(table, product_id)), HTTP_200_OK, Empty)

\* GET /products/<product_id>
get_products_response(table, product_id) ==
    IF ~found(table, product_id)
    THEN abort(HTTP_404_NOT_FOUND,
               <<"Product with id", product_id, "was not found.">>)
    ELSE jsonify(serialize(find(table, product_id)), HTTP_200_OK, Empty)

\* update_products that takes the id of the payload, not of the path.
update_products_body_id(table, id, product_id, headers, body) ==
    LET check == check_content_type(headers, "application/json") IN
    IF check.aborted THEN Outcome(check.response, table, id)
    ELSE IF ~found(table, product_id)
    THEN Outcome(abort(HTTP_404_NOT_FOUND,
                       <<"Product with id", product_id, "was not found.">>),
                 table, id)
    ELSE IF get_json_fails(body)
    THEN Outcome(abort(HTTP_400_BAD_REQUEST, <<"Bad Request">>), table, id)
    ELSE LET parsed == deserialize(find(table, product_id), body) IN
         IF ~parsed.ok
         THEN Outcome(abort(HTTP_400_BAD_REQUEST, <<parsed.error>>), table, id)
         ELSE LET product == IF "id" \in DOMAIN body.data
                             THEN [parsed.product EXCEPT !.id = body.data.id]
                             ELSE parsed.product
              IN Outcome(jsonify(serialize(product), HTTP_200_OK, Empty),
                         IF found(table, product.id)
                         THEN update(table, product) ELSE table, id)

\* update_products that inserts the payload when no row has the path id.
update_products_upsert(table, id, product_id, headers, body) ==
    LET check == check_content_type(headers, "application/json") IN
    IF check.aborted THEN Outcome(check.response, table, id)
    ELSE IF get_json_fails(body)
    THEN Outcome(abort(HTTP_400_BAD_REQUEST, <<"Bad Request">>), table, id)
    ELSE LET parsed == deserialize(IF found(table, product_id)
                                   THEN find(table, product_id) ELSE Product,
                                   body) IN
         IF ~parsed.ok
         THEN Outcome(abort(HTTP_400_BAD_REQUEST, <<parsed.error>>), table, id)
         ELSE LET product == [parsed.product EXCEPT !.id = product_id]
              IN Outcome(jsonify(serialize(product), HTTP_200_OK, Empty),
                         create(table, product_id, product), id)

\* update_products that does not call product.update().
update_products_not_saved(table, id, product_id, headers, body) ==
    LET check == check_content_type(headers, "application/json") IN
    IF check.aborted THEN Outcome(check.response, table, id)
    ELSE IF ~found(table, product_id)
    THEN Outcome(abort(HTTP_404_NOT_FOUND,
                       <<"Product with id", product_id, "was not found.">>),
                 table, id)
    ELSE IF get_json_fails(body)
    THEN Outcome(abort(HTTP_400_BAD_REQUEST, <<"Bad Request">>), table, id)
    ELSE LET parsed == deserialize(find(table, product_id), body) IN
         IF ~parsed.ok
         THEN Outcome(abort(HTTP_400_BAD_REQUEST, <<parsed.error>>), table, id)
         ELSE LET product == [parsed.product EXCEPT !.id = product_id]
              IN Outcome(jsonify(serialize(product), HTTP_200_OK, Empty),
                         table, id)

\* update_products that saves the entity although its validation failed.
update_products_dirty_saved(table, id, product_id, headers, body) ==
    LET check == check_content_type(headers, "application/json") IN
    IF check.aborted THEN Outcome(check.response, table, id)
    ELSE IF ~found(table, product_id)
    THEN Outcome(abort(HTTP_404_NOT_FOUND,
                       <<"Product with id", product_id, "was not found.">>),
                 table, id)
    ELSE IF get_json_fails(body)
    THEN Outcome(abort(HTTP_400_BAD_REQUEST, <<"Bad Request">>), table, id)
    ELSE LET parsed == deserialize(find(table, product_id), body)
             product == [parsed.product EXCEPT !.id = product_id]
         IN IF ~parsed.ok
            THEN Outcome(abort(HTTP_400_BAD_REQUEST, <<parsed.error>>),
                         update(table, product), id)
            ELSE Outcome(jsonify(serialize(product), HTTP_200_OK, Empty),
                         update(table, product), id)

\* PUT /products/<product_id>
update_products_outcome(table, id, product_id, headers, body) ==
    LET check == check_content_type(headers, "application/json") IN
    IF check.aborted THEN Outcome(check.response, table, id)
    ELSE IF ~found(table, product_id)
    THEN Outcome(abort(HTTP_404_NOT_FOUND,
                       <<"Product with id", product_id, "was not found.">>),
                 table, id)
    ELSE IF get_json_fails(body)
    THEN Outcome(abort(HTTP_400_BAD_REQUEST, <<"Bad Request">>), table, id)
    ELSE LET parsed == deserialize(find(table, product_id), body) IN
         IF ~parsed.ok
         THEN Outcome(abort(HTTP_400_BAD_REQUEST, <<parsed.error>>), table, id)
         ELSE LET product == [parsed.product EXCEPT !.id = product_id]
              IN Outcome(jsonify(serialize(product), HTTP_200_OK, Empty),
                         update(table, product), id)

\* create_products that swallows the exception of product.create().
create_products_failure_swallowed(table, id, headers, body) ==
    LET normal == create_products_outcome(table, id, headers, body) IN
    IF normal.response.status = HTTP_201_CREATED
    THEN Outcome(jsonify(serialize(deserialize(Product, body).product),
                         HTTP_201_CREATED,
                         [k \in {"Location"} |-> url_for_get_products(NoId)]),
                 table, id)
    ELSE normal

\* POST /products when the store fails product.create(): the handler has no
\* except clause, the write is rolled back and the exception leaves the
\* handler.  The handler reaches create() exactly when it would have
\* answered 201.
create_products_failed(table, id, headers, body) ==
    LET normal == create_products_outcome(table, id, headers, body) IN
    IF normal.response.status = HTTP_201_CREATED
    THEN Outcome(unhandled("DataStoreError"), table, id)
    ELSE normal

\* PUT /products/<product_id> when the store fails product.update(): as for
\* create.  The handler reaches update() exactly when it would have
\* answered 200.
update_products_failed(table, id, product_id, headers, body) ==
    LET normal == update_products_outcome(table, id, product_id, headers, body)
    IN IF normal.response.status = HTTP_200_OK
       THEN Outcome(unhandled("DataStoreError"), table, id)
       ELSE normal

\* delete_products that reports an absent id as not found.
delete_products_absent_is_error(table, id, product_id) ==
    IF found(table, product_id)
    THEN Outcome([status |-> HTTP_204_NO_CONTENT,
                  body |-> [type |-> "text", text |-> ""],
                  headers |-> Empty],
                 delete(table, find(table, product_id)), id)
    ELSE Outcome(abort(HTTP_404_NOT_FOUND,
                       <<"Product with id", product_id, "was not found.">>),
                 table, id)

\* delete_products that empties the table when the id is found.
delete_products_clears(table, id, product_id) ==
    Outcome([status |-> HTTP_204_NO_CONTENT,
             body |-> [type |-> "text", text |-> ""],
             headers |-> Empty],
            IF found(table, product_id) THEN Empty ELSE table, id)

\* DELETE /products/<product_id>
delete_products_outcome(table, id, product_id) ==
    LET after == IF found(table, product_id)
                 THEN delete(table, find(table, product_id))
                 ELSE table
    IN Outcome([status |-> HTTP_204_NO_CONTENT,
                body |-> [type |-> "text", text |-> ""],
                headers |-> Empty],
               after, id)

(***************************************************************************)
(* The service: one action per route                                       *)
(***************************************************************************)

\* The request a handler served, as the claims read it back.
Request(method, path, product_id, headers, args, body) ==
    [method |-> method, path |-> path, product_id |-> product_id,
     headers |-> headers, args |-> args, body |-> body]

NoBody == [json |-> "none"]

Init ==
    /\ store = Empty
    /\ next_id = 1
    /\ request = Request("", "", NoId, Empty, Empty, NoBody)
    /\ response = [status |-> 0, body |-> [type |-> "text", text |-> ""],
                   headers |-> Empty]
    /\ store_raised = FALSE

healthcheck ==
    /\ request' = Request("GET", "/health", NoId, Empty, Empty, NoBody)
    /\ response' = healthcheck_response
    /\ store_raised' = FALSE
    /\ UNCHANGED <<store, next_id>>

create_products ==
    \E headers \in Headers, body \in Bodies, fails \in BOOLEAN :
        LET normal == create_products_outcome(store, next_id, headers, body)
            outcome == IF fails
                       THEN create_products_failed(store, next_id, headers, body)
                       ELSE normal
        IN /\ fails => outcome # normal
           /\ outcome.next_id <= MaxId + 1
           /\ normal.next_id <= MaxId + 1
           /\ store_raised' = fails
           /\ request' = Request("POST", "/products", NoId, headers, Empty, body)
           /\ response' = outcome.response
           /\ store' = outcome.store
           /\ next_id' = outcome.next_id

\* list_products that drops the rows when the query ends in an error.
list_products_error_resets ==
    \E args \in Args :
        LET resp == list_products_response(store, args) IN
        /\ request' = Request("GET", "/products", NoId, Empty, args, NoBody)
        /\ response' = resp
        /\ store_raised' = FALSE
        /\ store' = IF resp.status = HTTP_200_OK THEN store ELSE Empty
        /\ UNCHANGED next_id

list_products ==
    \E args \in Args :
        /\ request' = Request("GET", "/products", NoId, Empty, args, NoBody)
        /\ response' = list_products_response(store, args)
        /\ store_raised' = FALSE
        /\ UNCHANGED <<store, next_id>>

get_products ==
    \E product_id \in PathIds :
        /\ request' = Request("GET", "/products/<id>", product_id,
                              Empty, Empty, NoBody)
        /\ response' = get_products_response(store, product_id)
        /\ store_raised' = FALSE
        /\ UNCHANGED <<store, next_id>>

update_products ==
    \E product_id \in PathIds, headers \in Headers, body \in Bodies,
       fails \in BOOLEAN :
        LET normal == update_products_outcome(store, next_id, product_id,
                                              headers, body)
            outcome == IF fails
                       THEN update_products_failed(store, next_id, product_id,
                                                   headers, body)
                       ELSE normal
        IN /\ fails => outcome # normal
           /\ store_raised' = fails
           /\ request' = Request("PUT", "/products/<id>", product_id,
                                 headers, Empty, body)
           /\ response' = outcome.response
           /\ store' = outcome.store
           /\ next_id' = outcome.next_id

delete_products ==
    \E product_id \in PathIds :
        LET outcome == delete_products_outcome(store, next_id, product_id)
        IN /\ store_raised' = FALSE
           /\ request' = Request("DELETE", "/products/<id>", product_id,
                                 Empty, Empty, NoBody)
           /\ response' = outcome.response
           /\ store' = outcome.store
           /\ next_id' = outcome.next_id

Next ==
    \/ healthcheck
    \/ create_products
    \/ list_products
    \/ get_products
    \/ update_products
    \/ delete_products

Spec == Init /\ [][Next]_vars

(***************************************************************************)
(* The entity used directly, as tests/test_models.py does: create(),       *)
(* update() and delete() on Product objects, without a request             *)
(***************************************************************************)

\* ProductFactory(): entities with every attribute set and no id.
Factory ==
    {deserialize(Product, [json |-> "object", data |-> d]).product :
        d \in ValidData}

\* What a method call leaves behind: the exception raised ("" for none) and
\* the table.
Returned(exception, table) == [raised |-> exception, store |-> table]

\* Product.update() that saves without the test of the id.
Product_update_unchecked(table, product) ==
    Returned("", IF found(table, product.id)
                 THEN update(table, product) ELSE table)

\* Product.update(): a validation error when the id is unset, else the row
\* of that id is saved.
Product_update_outcome(table, product) ==
    IF update_raises(product)
    THEN Returned("DataValidationError", table)
    ELSE Returned("", IF found(table, product.id)
                      THEN update(table, product) ELSE table)

\* The call a test made and what it got back, in the request and response
\* variables.
Call(method, product) ==
    Request(method, "Product", product.id, Empty, Empty,
            [json |-> "entity", product |-> product])

Result(exception) ==
    [status |-> 0, body |-> [type |-> "raised", message |-> <<exception>>],
     headers |-> Empty]

\* product = ProductFactory(); product.id = None; product.create()
Product_create ==
    \E product \in Factory :
        /\ next_id <= MaxId
        /\ request' = Call("Product.create", product)
        /\ response' = Result("")
        /\ store' = create(store, next_id, product)
        /\ next_id' = next_id + 1
        /\ store_raised' = FALSE

\* product.description = "testing"; product.update(), with the id as the
\* store assigned it or set to None before the call.
Product_update ==
    \E i \in DOMAIN store, unset \in BOOLEAN :
        LET product == [store[i] EXCEPT !.description = "testing",
                                        !.id = IF unset THEN NoId ELSE i]
            outcome == Product_update_outcome(store, product)
        IN /\ request' = Call("Product.update", product)
           /\ response' = Result(outcome.raised)
           /\ store' = outcome.store
           /\ store_raised' = FALSE
           /\ UNCHANGED next_id

\* product.delete()
Product_delete ==
    \E i \in DOMAIN store :
        /\ request' = Call("Product.delete", store[i])
        /\ response' = Result("")
        /\ store' = delete(store, store[i])
        /\ store_raised' = FALSE
        /\ UNCHANGED next_id

ModelNext ==
    \/ Product_create
    \/ Product_update
    \/ Product_delete

ModelSpec == Init /\ [][ModelNext]_vars

(***************************************************************************)
(* Two requests in flight on one id.  A handler of /products/<id> reads    *)
(* the store in Product.find() and writes it in product.update() or        *)
(* product.delete(); between the two the other request's steps may run.    *)
(* Here request[c] and response[c] are those of client c, and the store    *)
(* serves every step.                                                      *)
(***************************************************************************)

Clients == {1, 2}

\* What a handler holds between its store steps: its request, the step it is
\* at, the entity that find() returned, and the place of its response among
\* the responses sent (0 until it is sent).
InFlight(req, pc, product, answered) ==
    [request |-> req, pc |-> pc, product |-> product, answered |-> answered]

\* No response sent yet.
NoResponse ==
    [status |-> 0, body |-> [type |-> "text", text |-> ""], headers |-> Empty]

\* The tables that one or two POST /products of valid payloads leave.
Created(table, id) ==
    {create_products_outcome(table, id,
                             [k \in {"Content-Type"} |-> "application/json"],
                             [json |-> "object", data |-> d]).store :
        d \in ValidData}

Stores == Created(Empty, 1) \cup UNION {Created(t, 2) : t \in Created(Empty, 1)}

\* The PUT and DELETE requests on an id.
Racing(product_id) ==
    {Request("DELETE", "/products/<id>", product_id, Empty, Empty, NoBody)}
    \cup {Request("PUT", "/products/<id>", product_id, headers, Empty, body) :
            headers \in Headers, body \in Bodies}

\* The place of the next response among the responses sent.
Place == Cardinality({c \in Clients : request[c].answered > 0}) + 1

ConcInit ==
    /\ store \in Stores
    /\ next_id = Cardinality(DOMAIN store) + 1
    /\ \E product_id \in DOMAIN store :
          request \in [Clients -> {InFlight(req, "find", Product, 0) :
                                      req \in Racing(product_id)}]
    /\ response = [c \in Clients |-> NoResponse]
    /\ store_raised = FALSE

\* update_products up to Product.find(): the content type is checked, the
\* row is looked up, and an absent row is answered 404.
update_products_find ==
    \E c \in Clients :
        LET req == request[c].request
            check == check_content_type(req.headers, "application/json")
            absent == abort(HTTP_404_NOT_FOUND,
                            <<"Product with id", req.product_id,
                              "was not found.">>)
        IN /\ request[c].pc = "find"
           /\ req.method = "PUT"
           /\ IF check.aborted \/ ~found(store, req.product_id)
              THEN /\ request' = [request EXCEPT ![c].pc = "done",
                                                 ![c].answered = Place]
                   /\ response' = [response EXCEPT ![c] =
                                     IF check.aborted THEN check.response
                                     ELSE absent]
              ELSE /\ request' = [request EXCEPT
                                    ![c].pc = "save",
                                    ![c].product = find(store, req.product_id)]
                   /\ UNCHANGED response
           /\ UNCHANGED <<store, next_id, store_raised>>

\* update_products from deserialize() on, where the save creates the row
\* when it is no longer there.
update_products_save_recreates ==
    \E c \in Clients :
        LET req == request[c].request
            parsed == deserialize(request[c].product, req.body)
            product == [parsed.product EXCEPT !.id = req.product_id]
        IN /\ request[c].pc = "save"
           /\ request' = [request EXCEPT ![c].pc = "done",
                                         ![c].answered = Place]
           /\ IF get_json_fails(req.body)
              THEN /\ response' = [response EXCEPT ![c] =
                                     abort(HTTP_400_BAD_REQUEST,
                                           <<"Bad Request">>)]
                   /\ UNCHANGED store
              ELSE IF ~parsed.ok
              THEN /\ response' = [response EXCEPT ![c] =
                                     abort(HTTP_400_BAD_REQUEST,
                                           <<parsed.error>>)]
                   /\ UNCHANGED store
              ELSE /\ response' = [response EXCEPT ![c] =
                                     jsonify(serialize(product), HTTP_200_OK,
                                             Empty)]
                   /\ store' = [i \in DOMAIN store \cup {product.id} |->
                                  IF i = product.id THEN product ELSE store[i]]
           /\ UNCHANGED <<next_id, store_raised>>

\* update_products from deserialize() on: the body is read onto the entity
\* that find() returned, the id is set to the path's, the entity is saved and
\* returned.
update_products_save ==
    \E c \in Clients :
        LET req == request[c].request
            parsed == deserialize(request[c].product, req.body)
            product == [parsed.product EXCEPT !.id = req.product_id]
        IN /\ request[c].pc = "save"
           /\ request' = [request EXCEPT ![c].pc = "done",
                                         ![c].answered = Place]
           /\ IF get_json_fails(req.body)
              THEN /\ response' = [response EXCEPT ![c] =
                                     abort(HTTP_400_BAD_REQUEST,
                                           <<"Bad Request">>)]
                   /\ UNCHANGED store
              ELSE IF ~parsed.ok
              THEN /\ response' = [response EXCEPT ![c] =
                                     abort(HTTP_400_BAD_REQUEST,
                                           <<parsed.error>>)]
                   /\ UNCHANGED store
              ELSE /\ response' = [response EXCEPT ![c] =
                                     jsonify(serialize(product), HTTP_200_OK,
                                             Empty)]
                   /\ store' = update(store, product)
           /\ UNCHANGED <<next_id, store_raised>>

\* delete_products up to Product.find(): an absent row is answered 204 with
\* nothing deleted.
delete_products_find ==
    \E c \in Clients :
        LET req == request[c].request
        IN /\ request[c].pc = "find"
           /\ req.method = "DELETE"
           /\ IF found(store, req.product_id)
              THEN /\ request' = [request EXCEPT
                                    ![c].pc = "delete",
                                    ![c].product = find(store, req.product_id)]
                   /\ UNCHANGED response
              ELSE /\ request' = [request EXCEPT ![c].pc = "done",
                                                 ![c].answered = Place]
                   /\ response' = [response EXCEPT ![c] =
                                     [status |-> HTTP_204_NO_CONTENT,
                                      body |-> [type |-> "text", text |-> ""],
                                      headers |-> Empty]]
           /\ UNCHANGED <<store, next_id, store_raised>>

\* delete_products from product.delete() on.
delete_products_delete ==
    \E c \in Clients :
        /\ request[c].pc = "delete"
        /\ request' = [request EXCEPT ![c].pc = "done", ![c].answered = Place]
        /\ response' = [response EXCEPT ![c] =
                          [status |-> HTTP_204_NO_CONTENT,
                           body |-> [type |-> "text", text |-> ""],
                           headers |-> Empty]]
        /\ store' = delete(store, request[c].product)
        /\ UNCHANGED <<next_id, store_raised>>

ConcNext ==
    \/ update_products_find
    \/ update_products_save
    \/ delete_products_find
    \/ delete_products_delete

ConcSpec == ConcInit /\ [][ConcNext]_vars

(***************************************************************************)
(* Properties                                                              *)
(***************************************************************************)

\* The last request, by route.
IsCreate == request.method = "POST" /\ request.path = "/products"
IsList   == request.method = "GET" /\ request.path = "/products"
IsRead   == request.method = "GET" /\ request.path = "/products/<id>"
IsUpdate == request.method = "PUT" /\ request.path = "/products/<id>"
IsDelete == request.method = "DELETE" /\ request.path = "/products/<id>"

\* The request of the step being taken, by route.
CreateStep == request'.method = "POST" /\ request'.path = "/products"
UpdateStep == request'.method = "PUT" /\ request'.path = "/products/<id>"

\* The headers carry the JSON media type.
JsonContentType(headers) ==
    /\ "Content-Type" \in DOMAIN headers
    /\ headers["Content-Type"] = "application/json"

\* C1: DELETE /products/{id} is idempotent.  Whatever the store held and
\* whatever the id, the request is answered 204 with an empty body; the same
\* DELETE issued again is answered 204 again and changes nothing; and a GET of
\* that id issued afterwards is answered 404.
C1_DeleteIdempotent ==
    IsDelete =>
        /\ response.status = 204
        /\ response.body.type = "text"
        /\ response.body.text = ""
        /\ request.product_id \notin DOMAIN store
        /\ LET again == delete_products_outcome(store, next_id,
                                                request.product_id)
           IN /\ again.response.status = 204
              /\ again.response.body.type = "text"
              /\ again.response.body.text = ""
              /\ again.store = store
        /\ get_products_response(store, request.product_id).status = 404

\* A DELETE was served for an id that the store had assigned, the row is gone
\* and other rows remain.
C1_Witness ==
    /\ IsDelete
    /\ response.status = 204
    /\ request.product_id \in 1..(next_id - 1)
    /\ request.product_id \notin DOMAIN store
    /\ DOMAIN store # {}

\* C2: POST /products and PUT /products/{id} without a Content-Type header,
\* or with one that is not application/json, are answered 415 and leave the
\* store as it was, for every store state, every path id and every body.
C2_ContentTypeGuard ==
    [][(CreateStep \/ UpdateStep) /\ ~JsonContentType(request'.headers)
        => /\ response'.status = 415
           /\ store' = store
           /\ next_id' = next_id]_vars

\* A PUT of a valid payload to an existing row was refused with 415 for its
\* content type.
C2_Witness ==
    /\ IsUpdate
    /\ ~JsonContentType(request.headers)
    /\ request.product_id \in DOMAIN store
    /\ request.body.json = "object"
    /\ request.body.data \in ValidData
    /\ response.status = 415

ListStep == request'.method = "GET" /\ request'.path = "/products"

\* Two texts that differ at most in letter case.
SameIgnoringCase(x, y) ==
    /\ Len(x) = Len(y)
    /\ \A i \in 1..Len(x) : upper_char(x[i]) = upper_char(y[i])

\* The text names this category, in whatever letter case.
Names(text, m) == SameIgnoringCase(text, Category_name(m))

\* The text is one of true, yes, 1, in whatever letter case.
Truthy(text) == \E t \in {t_true, t_yes, t_1} : SameIgnoringCase(text, t)

\* The response is 200 with exactly the rows of these ids, each once.
IsRows(resp, ids) ==
    /\ resp.status = 200
    /\ resp.body.type = "json"
    /\ Len(resp.body.value) = Cardinality(ids)
    /\ {resp.body.value[i] : i \in 1..Len(resp.body.value)}
         = {serialize(store[i]) : i \in ids}

\* The parameter was sent with a value that is not the empty text.
NameSent(args) == "name" \in DOMAIN args /\ args.name # ""
CategorySent(args) == "category" \in DOMAIN args /\ Len(args.category) > 0
AvailableSent(args) == "available" \in DOMAIN args /\ Len(args.available) > 0

\* C3 (as stated): GET /products applies its filters in a fixed precedence.
\* Whenever a name parameter is supplied the result is the rows of that name,
\* whatever category and available are; otherwise whenever a category is
\* supplied the result is the rows of that category, whatever available is;
\* otherwise whenever available is supplied the result is the rows of that
\* availability; and when none is supplied the result is all rows, with
\* status 200.  Stated for the requests whose category, if any, is empty or
\* names a member, so that the answer to an unknown category (C4) plays no
\* part.
C3_AsStated ==
    IsList /\ ("category" \in DOMAIN request.args
                 => \/ request.args.category = <<>>
                    \/ \E m \in Category : Names(request.args.category, m))
    => LET args == request.args IN
       /\ "name" \in DOMAIN args
            => IsRows(response,
                      {i \in DOMAIN store : store[i].name = args.name})
       /\ "name" \notin DOMAIN args /\ "category" \in DOMAIN args
            => \A m \in Category :
                 Names(args.category, m)
                   => IsRows(response,
                             {i \in DOMAIN store : store[i].category = m})
       /\ DOMAIN args = {"available"}
            => IsRows(response,
                      {i \in DOMAIN store :
                          store[i].available = Truthy(args.available)})
       /\ DOMAIN args = {} => IsRows(response, DOMAIN store)

\* C3 (amended): the precedence is over the parameters sent with a non-empty
\* value.  Whenever a non-empty name is sent the result is the rows of that
\* name, whatever category and available are; otherwise whenever a non-empty
\* category is sent the result is that of the category alone, whatever
\* available is, and is the rows of the category it names; otherwise whenever
\* a non-empty available is sent the result is the rows of that availability;
\* and when no parameter is sent with a non-empty value the result is all
\* rows, with status 200, also when the store is empty.
C3_FilterPrecedence ==
    IsList =>
        LET args == request.args IN
        /\ NameSent(args)
             => IsRows(response,
                       {i \in DOMAIN store : store[i].name = args.name})
        /\ ~NameSent(args) /\ CategorySent(args)
             => /\ response = list_products_response(store,
                                  [k \in {"category"} |-> args.category])
                /\ \A m \in Category :
                     Names(args.category, m)
                       => IsRows(response,
                                 {i \in DOMAIN store : store[i].category = m})
        /\ ~NameSent(args) /\ ~CategorySent(args) /\ AvailableSent(args)
             => IsRows(response,
                       {i \in DOMAIN store :
                           store[i].available = Truthy(args.available)})
        /\ ~NameSent(args) /\ ~CategorySent(args) /\ ~AvailableSent(args)
             => IsRows(response, DOMAIN store)

\* A query with all three parameters was answered by name: the store held a
\* row of that name in another category than the one asked for.
C3_Witness ==
    /\ IsList
    /\ request.args = [name |-> "Hat", category |-> t_CLOTHS,
                       available |-> t_yes]
    /\ response.status = 200
    /\ \E i \in DOMAIN store :
          store[i].name = "Hat" /\ store[i].category = 2
    /\ \E i \in DOMAIN store : store[i].name # "Hat"

\* C4: GET /products?category=V, with no name parameter and a non-empty V
\* that names no Category member in any letter case, is answered 400, not
\* a server error, and leaves the store as it was.
C4_UnknownCategoryIs400 ==
    [][/\ ListStep
       /\ "name" \notin DOMAIN request'.args
       /\ "category" \in DOMAIN request'.args
       /\ request'.args.category # <<>>
       /\ \A m \in Category : ~Names(request'.args.category, m)
       => /\ response'.status = 400
          /\ store' = store
          /\ next_id' = next_id]_vars

\* C5: the category filter is case-insensitive.  With no name parameter, a
\* category parameter that spells a Category name in any letter case is
\* answered 200 with exactly the stored rows of that category, and every
\* other spelling of the same name gives the identical result.
C5_CategoryCaseInsensitive ==
    IsList /\ "name" \notin DOMAIN request.args
           /\ "category" \in DOMAIN request.args
    => \A m \in Category :
         Names(request.args.category, m)
           => /\ IsRows(response,
                        {i \in DOMAIN store : store[i].category = m})
              /\ \A other \in CategoryArgs :
                   SameIgnoringCase(other, request.args.category)
                     => list_products_response(store,
                            [k \in {"category"} |-> other]).body
                        = response.body

\* A mixed-case spelling of CLOTHS returned rows while the store also held a
\* row of another category.
C5_Witness ==
    /\ IsList
    /\ request.args = [k \in {"category"} |-> t_clothS]
    /\ response.status = 200
    /\ Len(response.body.value) >= 1
    /\ \E i \in DOMAIN store : store[i].category # 1

\* C6 (as stated): with no name or category parameter, every value of
\* available that is not true, yes or 1 (in any letter case) is taken as
\* false: the result is exactly the stored rows whose available is false.
C6_AsStated ==
    IsList /\ DOMAIN request.args = {"available"}
           /\ ~Truthy(request.args.available)
    => IsRows(response, {i \in DOMAIN store : ~store[i].available})

\* C6 (amended): with no name or category parameter, every non-empty value
\* of available that is not true, yes or 1 (in any letter case) is taken as
\* false: the result is exactly the stored rows whose available is false.
C6_NonTruthyIsFalse ==
    IsList /\ DOMAIN request.args = {"available"}
           /\ request.args.available # <<>>
           /\ ~Truthy(request.args.available)
    => IsRows(response, {i \in DOMAIN store : ~store[i].available})

\* available=tru, a misspelling, returned the rows that are not available
\* while the store also held a row that is.
C6_Witness ==
    /\ IsList
    /\ request.args = [k \in {"available"} |-> t_tru]
    /\ response.status = 200
    /\ Len(response.body.value) >= 1
    /\ \E i \in DOMAIN store : store[i].available

\* C7: with no name or category parameter, available=true, yes and 1, in any
\* letter case, each give exactly the stored rows whose available is true;
\* available=no and available=false each give exactly the rows whose
\* available is false.
C7_AvailableSpellings ==
    IsList /\ DOMAIN request.args = {"available"}
    => /\ request.args.available \in {t_true, t_TRUE, t_yes, t_Yes, t_1}
          => IsRows(response, {i \in DOMAIN store : store[i].available})
       /\ request.args.available \in {t_no, t_false}
          => IsRows(response, {i \in DOMAIN store : ~store[i].available})

\* available=Yes returned rows while the store also held a row that is not
\* available.
C7_Witness ==
    /\ IsList
    /\ request.args = [k \in {"available"} |-> t_Yes]
    /\ response.status = 200
    /\ Len(response.body.value) >= 1
    /\ \E i \in DOMAIN store : ~store[i].available

\* The step changes or removes the row of this id.
Touches(i) ==
    /\ request'.path = "/products/<id>"
    /\ request'.method \in {"PUT", "DELETE"}
    /\ request'.product_id = i

\* The response carries a product equal to the payload on every field that
\* a payload sets.
EqualsPayload(resp, data) ==
    /\ resp.body.type = "json"
    /\ resp.body.value.name = data.name
    /\ resp.body.value.description = data.description
    /\ resp.body.value.price = data.price
    /\ resp.body.value.available = data.available
    /\ resp.body.value.category = data.category

\* C8: when POST /products answers 201, the response has a Location header
\* that points to the new product and a body with the id that the store
\* assigned; a GET /products/{that id} is then answered 200 with a product
\* equal to the payload on name, description, price, available and category;
\* and every step that is not an update or delete of an id leaves the answer
\* to the GET of that id as it was.
C8_CreateThenRead ==
    [][/\ CreateStep /\ response'.status = 201
          => /\ "Location" \in DOMAIN response'.headers
             /\ response'.body.type = "json"
             /\ LET id == response'.body.value.id IN
                /\ id \notin DOMAIN store
                /\ id \in DOMAIN store'
                /\ response'.headers["Location"] = <<"/products", id>>
                /\ EqualsPayload(response', request'.body.data)
                /\ get_products_response(store', id).status = 200
                /\ get_products_response(store', id).body.value.id = id
                /\ EqualsPayload(get_products_response(store', id),
                                 request'.body.data)
       /\ \A i \in DOMAIN store :
            ~Touches(i)
              => /\ i \in DOMAIN store'
                 /\ get_products_response(store', i)
                      = get_products_response(store, i)]_vars

\* A POST of a valid payload was answered 201 with the id 2 while the row
\* of id 1 was stored.
C8_Witness ==
    /\ IsCreate
    /\ response.status = 201
    /\ response.body.value.id = 2
    /\ 1 \in DOMAIN store
    /\ 2 \in DOMAIN store
    /\ request.body.data \in ValidData

\* C9: POST /products with a JSON payload that has no name is answered 400
\* and persists no row: the stored products, and the number of products that
\* a GET /products lists, are as before the request.
C9_MissingName ==
    [][/\ CreateStep
       /\ JsonContentType(request'.headers)
       /\ request'.body.json = "object"
       /\ "name" \notin DOMAIN request'.body.data
       => /\ response'.status = 400
          /\ store' = store
          /\ next_id' = next_id
          /\ Len(list_products_response(store', Empty).body.value)
               = Len(list_products_response(store, Empty).body.value)]_vars

\* A payload without a name was refused with 400 while the store held a row
\* and could still take another.
C9_Witness ==
    /\ IsCreate
    /\ JsonContentType(request.headers)
    /\ request.body.json = "object"
    /\ "name" \notin DOMAIN request.body.data
    /\ response.status = 400
    /\ DOMAIN store = {1}
    /\ next_id = 2

\* C10: GET /products/{id} is answered 200 with the serialized stored row
\* when the store holds a row of that id, and otherwise 404 with a message
\* that says that the product with that id was not found.
C10_ReadOne ==
    IsRead =>
        IF request.product_id \in DOMAIN store
        THEN /\ response.status = 200
             /\ response.body.type = "json"
             /\ response.body.value = serialize(store[request.product_id])
             /\ response.body.value.id = request.product_id
        ELSE /\ response.status = 404
             /\ response.body.type = "error"
             /\ response.body.message
                  = <<"Product with id", request.product_id, "was not found.">>

\* The GET of an id that was assigned and later deleted was answered 404
\* while another row was stored.
C10_Witness ==
    /\ IsRead
    /\ request.product_id \in 1..(next_id - 1)
    /\ request.product_id \notin DOMAIN store
    /\ DOMAIN store # {}
    /\ response.status = 404

\* C11: a PUT /products/{id} that is answered 200 returns a product whose id
\* is the path id, and the row that it changes is the row of the path id,
\* also when the payload carries another id: no other row changes, none is
\* added and none is removed.
C11_PathIdAuthoritative ==
    [][UpdateStep /\ response'.status = 200
        => LET pid == request'.product_id IN
           /\ response'.body.type = "json"
           /\ response'.body.value.id = pid
           /\ pid \in DOMAIN store
           /\ DOMAIN store' = DOMAIN store
           /\ store'[pid].id = pid
           /\ store'[pid].name = request'.body.data.name
           /\ \A i \in DOMAIN store \ {pid} : store'[i] = store[i]]_vars

\* A PUT to the row 1 succeeded with a payload that carries the id 2 while a
\* row 2 was stored.
C11_Witness ==
    /\ IsUpdate
    /\ response.status = 200
    /\ request.product_id = 1
    /\ "id" \in DOMAIN request.body.data
    /\ request.body.data.id = 2
    /\ 2 \in DOMAIN store
    /\ store[1].description = "unknown"
    /\ store[2].description # "unknown"

\* C12: a PUT /products/{id} with the JSON content type and an id that no
\* stored row has is answered 404 and leaves the store as it was, whatever
\* the body: no row is created.
C12_UpdateAbsentIs404 ==
    [][/\ UpdateStep
       /\ JsonContentType(request'.headers)
       /\ request'.product_id \notin DOMAIN store
       => /\ response'.status = 404
          /\ response'.body.type = "error"
          /\ store' = store
          /\ next_id' = next_id]_vars

\* A PUT of a valid payload with the JSON content type to an id that the
\* store never assigned was answered 404 while another row was stored.
C12_Witness ==
    /\ IsUpdate
    /\ JsonContentType(request.headers)
    /\ request.body.json = "object"
    /\ request.body.data \in ValidData
    /\ request.product_id = 2
    /\ next_id = 2
    /\ DOMAIN store = {1}
    /\ response.status = 404

\* C13: in every reachable state every stored product has an id that is set,
\* no two stored products have the same id, and the id of a stored product
\* is the one that the store assigned when the row was created (the key of
\* the table is the id assigned at creation).
C13_IdInvariant ==
    \A i \in DOMAIN store :
        /\ store[i].id # NoId
        /\ store[i].id = i
        /\ i \in 1..(next_id - 1)
        /\ \A j \in DOMAIN store : j # i => store[j].id # store[i].id

\* After a create, a delete and an update: the row 1 is gone and the row 2
\* was updated by a payload that carries an id.
C13_Witness ==
    /\ IsUpdate
    /\ response.status = 200
    /\ request.product_id = 2
    /\ "id" \in DOMAIN request.body.data
    /\ DOMAIN store = {2}
    /\ next_id = 3

\* C14: Product.update() on a product whose id is unset raises the
\* validation error, DataValidationError, and nothing else, and leaves every
\* stored row as it was.
C14_UpdateWithoutId ==
    [][/\ request'.method = "Product.update"
       /\ request'.body.product.id = NoId
       => /\ response'.body.type = "raised"
          /\ response'.body.message = <<"DataValidationError">>
          /\ store' = store
          /\ next_id' = next_id]_vars

\* update() was called on a stored product whose description was changed and
\* whose id was set to None, and raised, while the store held its row.
C14_Witness ==
    /\ request.method = "Product.update"
    /\ request.body.product.id = NoId
    /\ request.body.product.description = "testing"
    /\ response.body.message = <<"DataValidationError">>
    /\ \E i \in DOMAIN store :
          /\ store[i].name = request.body.product.name
          /\ store[i].description # "testing"

\* C15: GET /products?name=X with a non-empty X is answered 200 with exactly
\* the stored products whose name is X, letter case included: every returned
\* product has the name X, and every stored product of the name X is
\* returned, once.
C15_NameFilter ==
    IsList /\ DOMAIN request.args = {"name"} /\ request.args.name # ""
    => /\ response.status = 200
       /\ response.body.type = "json"
       /\ \A k \in 1..Len(response.body.value) :
            response.body.value[k].name = request.args.name
       /\ \A i \in DOMAIN store :
            store[i].name = request.args.name
              => \E k \in 1..Len(response.body.value) :
                   response.body.value[k].id = i
       /\ \A k, l \in 1..Len(response.body.value) :
            response.body.value[k].id = response.body.value[l].id => k = l
       /\ \A k \in 1..Len(response.body.value) :
            /\ response.body.value[k].id \in DOMAIN store
            /\ response.body.value[k]
                 = serialize(store[response.body.value[k].id])

\* name=Hat returned one product while the store also held a product named
\* hat, which differs in letter case only.
C15_Witness ==
    /\ IsList
    /\ request.args = [k \in {"name"} |-> "Hat"]
    /\ response.status = 200
    /\ Len(response.body.value) = 1
    /\ \E i \in DOMAIN store : store[i].name = "hat"

DeleteStep == request'.method = "DELETE" /\ request'.path = "/products/<id>"

\* C17: a DELETE /products/{id} of an existing id removes exactly that row:
\* there is one stored product fewer, and every other stored product is as it
\* was.  A DELETE of an absent id leaves the whole store as it was.
C17_DeleteFrame ==
    [][DeleteStep =>
        LET i == request'.product_id
        IN IF i \in DOMAIN store
           THEN /\ DOMAIN store' = DOMAIN store \ {i}
                /\ Cardinality(DOMAIN store') = Cardinality(DOMAIN store) - 1
                /\ \A j \in DOMAIN store' : store'[j] = store[j]
           ELSE store' = store]_vars

\* A DELETE removed the first of two stored rows and the second is still
\* there.
C17_Witness ==
    /\ IsDelete
    /\ request.product_id = 1
    /\ DOMAIN store = {2}
    /\ next_id = 3

FailsValidation(body) ==
    /\ body.json = "object"
    /\ \/ {"name", "price", "available", "category"} \ DOMAIN body.data # {}
       \/ ~is_bool(body.data.available)
       \/ ~Category_has(body.data.category)

\* C19: a PUT /products/{id} of an existing id with the JSON content type and
\* a body that fails validation is answered 400 and leaves the stored product
\* as it was in every field: what deserialize() had assigned to the entity
\* before it failed is not saved, and a GET of the id answers as before.
C19_InvalidUpdate ==
    [][/\ UpdateStep
       /\ JsonContentType(request'.headers)
       /\ request'.product_id \in DOMAIN store
       /\ FailsValidation(request'.body)
       => /\ response'.status = 400
          /\ response'.body.type = "error"
          /\ store' = store
          /\ get_products_response(store', request'.product_id)
               = get_products_response(store, request'.product_id)]_vars

\* A PUT whose body names an unknown category was refused for a stored row
\* with another name than the body's, which deserialize() had assigned.
C19_Witness ==
    /\ IsUpdate
    /\ response.status = 400
    /\ request.product_id \in DOMAIN store
    /\ JsonContentType(request.headers)
    /\ FailsValidation(request.body)
    /\ "name" \in DOMAIN request.body.data
    /\ "category" \in DOMAIN request.body.data
    /\ store[request.product_id].name # request.body.data.name

\* The step being taken is one of the read-only requests.
ReadStep ==
    /\ request'.method = "GET"
    /\ request'.path \in {"/health", "/products", "/products/<id>"}

\* C20: GET /health, GET /products with any query parameters, also when the
\* answer is an error, and GET /products/{id} leave the store as it was: the
\* same rows with the same fields, and the same next id.  GET /health is
\* answered 200 with the message OK whatever the store holds.
C20_ReadOnly ==
    [][ReadStep =>
        /\ store' = store
        /\ next_id' = next_id
        /\ request'.path = "/health" =>
              /\ response'.status = 200
              /\ response'.body.type = "json"
              /\ response'.body.value.message = "OK"]_vars

\* A listing ended in an error while the store held two rows.
C20_Witness ==
    /\ IsList
    /\ response.status >= 400
    /\ DOMAIN store = {1, 2}

\* The request of client c has been answered.
Answered(c) == request[c].pc = "done"

\* Client c sent a PUT, or a DELETE.
SentPut(c) == request[c].request.method = "PUT"
SentDelete(c) == request[c].request.method = "DELETE"

\* The id that the two requests in flight name.
RacedId == request[1].request.product_id

\* Each answered request in flight has one of its documented outcomes: a
\* DELETE 204 with an empty body; a PUT 200, 400, 404 or 415 and no
\* unconverted fault, and 200 or 404 when its content type is JSON and its
\* body is a valid payload.
RacedOutcomes ==
    \A c \in Clients :
        Answered(c) =>
            /\ SentDelete(c) =>
                  /\ response[c].status = 204
                  /\ response[c].body.type = "text"
                  /\ response[c].body.text = ""
            /\ SentPut(c) =>
                  /\ response[c].status \in {200, 400, 404, 415}
                  /\ response[c].status = 200 => response[c].body.type = "json"
                  /\ response[c].status # 200 => response[c].body.type = "error"
                  /\ (/\ JsonContentType(request[c].request.headers)
                      /\ request[c].request.body.json = "object"
                      /\ request[c].request.body.data \in ValidData)
                     => response[c].status \in {200, 404}

\* A PUT of the two was answered 200.
Saved == \E c \in Clients : SentPut(c) /\ response[c].status = 200

\* When both requests are answered and a PUT was answered 200, the row is
\* absent or it holds exactly the values that such a PUT returned; when one
\* of the two was a DELETE, the row is absent.
RacedRow ==
    (\A c \in Clients : Answered(c)) =>
        /\ Saved /\ RacedId \in DOMAIN store =>
              \E c \in Clients :
                  /\ SentPut(c)
                  /\ response[c].status = 200
                  /\ response[c].body.value = serialize(store[RacedId])
                  /\ store[RacedId].id = RacedId
        /\ (\E c \in Clients : SentDelete(c)) => RacedId \notin DOMAIN store

====
